---- MODULE Spec2Model ----
(***************************************************************************)
(* Sealed-auction backend (FastAPI + MongoDB) and its authenticity agent.  *)
(*                                                                         *)
(* Spec      : the HTTP API of backend_api.  Every request handler is a    *)
(*             coroutine; each awaited database call is one atomic step,   *)
(*             and up to Cardinality(Procs) requests are in flight at      *)
(*             once.  The state is the three MongoDB collections, the      *)
(*             position and locals of each in-flight request, and the      *)
(*             HTTP response sent by the last step.                        *)
(* SpecAgent : one call of GeminiAutonomousAgent.run, stage by stage.      *)
(*                                                                         *)
(* Optional values (Python None) are sequences: <<>> is None, <<v>> is v.  *)
(***************************************************************************)
EXTENDS Integers, Sequences, FiniteSets, TLC

VARIABLES
    users,      \* collection "users": set of user documents
    listings,   \* collection "listings": listing_id -> listing document
    bids,       \* collection "bids": bid documents in insertion order
    inflight,   \* per request slot: position and locals of the handler
    resp,       \* HTTP response sent by the last step (NoResp if none)
    calls,      \* number of requests received so far
    agent,      \* GeminiAutonomousAgent.run: position, stage trace, result
    price,      \* RecommandationPrixAgent.run: position, model output, result
    upload,     \* upload_images: the file loop, the disk, the insert
    vision,     \* VisionAgent.run: position, model outputs, result
    qdrant,     \* DuplicateCheckerQdrant: the collection and the last check
    ela,        \* ELADetector: error statistics and suspicion score
    now         \* datetime.utcnow(), in days since the server started

vars == <<users, listings, bids, inflight, resp, calls, agent,
          price, upload, vision, qdrant, ela, now>>

\* the state of the API
apiVars == <<users, listings, bids, inflight, resp, calls>>

\* the components of backend_ai (and the upload loop) and the clock, which
\* the API steps leave alone
toolVars == <<price, upload, vision, qdrant, ela, now>>

db == <<users, listings, bids>>

----
\* Bounds of the model

\* largest number of documents in the bids collection
MaxBids == 2

\* largest number of requests the server receives in one run
MaxCalls == 5

\* request slots: requests that can be in flight at the same time
Procs == {1, 2}

\* uuid4 values available to upload_images
ListingIds == {"L1"}

Null == <<>>

Some(v) == <<v>>

----
\* Users, tokens, roles

\* accounts created through POST /auth/register before the run
SeedUsers ==
    { [user_id |-> "s1", email |-> "s1@x", role |-> "seller"],
      [user_id |-> "s2", email |-> "s2@x", role |-> "seller"],
      [user_id |-> "b1", email |-> "b1@x", role |-> "buyer"],
      [user_id |-> "b2", email |-> "b2@x", role |-> "buyer"] }

UserIds == {"s1", "s2", "b1", "b2"}

\* Authorization header values: absent, a string jwt.decode rejects (bad
\* signature or expired), a signed token without "sub", a signed token
\* whose "sub" is a user id ("gone": an id with no user document)
Tokens ==
    { [kind |-> "absent", sub |-> ""],
      [kind |-> "undecodable", sub |-> ""],
      [kind |-> "jwt", sub |-> ""] }
    \cup { [kind |-> "jwt", sub |-> u] : u \in UserIds \cup {"gone"} }

Error(code, msg) == [status |-> code, body |-> [detail |-> msg]]

Ok(b) == [status |-> 200, body |-> b]

NoResp == [status |-> 0, body |-> [detail |-> ""]]

\* get_current_user: the user document of the token, or a 401
get_current_user(tok) ==
    IF tok.kind = "absent" THEN Error(401, "Authentification requise")
    ELSE IF tok.kind = "undecodable" THEN Error(401, "Token invalide ou expire")
    ELSE IF tok.sub = "" THEN Error(401, "Token invalide")
    ELSE IF ~ \E u \in users : u.user_id = tok.sub
         THEN Error(401, "Utilisateur introuvable")
    ELSE Ok(CHOOSE u \in users : u.user_id = tok.sub)

\* variant: the dependency authenticates and skips the role check
authenticated_only(tok) == get_current_user(tok)

require_seller(tok) ==
    LET r == get_current_user(tok) IN
    IF r.status # 200 THEN r
    ELSE IF r.body.role # "seller" THEN Error(403, "Reserve aux vendeurs")
    ELSE r

require_buyer(tok) ==
    LET r == get_current_user(tok) IN
    IF r.status # 200 THEN r
    ELSE IF r.body.role # "buyer" THEN Error(403, "Reserve aux acheteurs")
    ELSE r

----
\* Listing documents

StatusOfPhase ==
    [ph \in 1..5 |->
        CASE ph = 1 -> "UPLOADED"
          [] ph = 2 -> "AUTHENTICATED"
          [] ph = 3 -> "PRICED"
          [] ph = 4 -> "POSTED"
          [] ph = 5 -> "AUCTION_ACTIVE"]

\* build_listing_document + ListingCreate defaults (timestamps, category and
\* description are not modelled: no handler branches on them)
build_listing_document(lid, seller, title, image) ==
    [ listing_id         |-> lid,
      seller_id          |-> seller,
      images             |-> << image >>,
      status             |-> "UPLOADED",
      pipeline_phase     |-> 1,
      title              |-> title,
      starting_price     |-> Null,
      participants_count |-> 0,
      end_time           |-> Null,
      ai_analysis        |-> Null,
      price_estimation   |-> Null,
      generated_post     |-> Null,
      blockchain         |-> [auction_address |-> Null, tx_hash |-> Null] ]

\* variant: the redaction forgets "blockchain"
PopButBlockchain(doc, fs) == [f \in (DOMAIN doc) \ (fs \ {"blockchain"}) |-> doc[f]]

\* dict.pop(field, None) for each field of fs
Pop(doc, fs) == [f \in (DOMAIN doc) \ fs |-> doc[f]]

\* _strip_image_data: drop the binary payload of every image
StripImageData(doc) ==
    [doc EXCEPT !.images =
        [i \in 1..Len(doc.images) |-> Pop(doc.images[i], {"data"})]]

\* get_listing_by_id(listing_id): None or the stripped document
get_listing_by_id(lid) ==
    IF lid \in DOMAIN listings THEN Some(StripImageData(listings[lid])) ELSE Null

\* get_listings_for_buyer: the active auctions, redacted (the order of the
\* returned list is not modelled: the body holds the set of its items)
get_listings_for_buyer ==
    { StripImageData(Pop(listings[l],
          {"price_estimation", "ai_analysis", "seller_id", "generated_post",
           "blockchain", "pipeline_phase"})) :
        l \in {x \in DOMAIN listings : listings[x].status = "AUCTION_ACTIVE"} }

\* get_listings_by_seller: every listing of the seller, complete
get_listings_by_seller(seller) ==
    { StripImageData(listings[l]) :
        l \in {x \in DOMAIN listings : listings[x].seller_id = seller} }

----
\* Request slots

Idle == [pc |-> "idle", op |-> "", lid |-> "", user |-> "", amount |-> 0, n |-> 0]

\* a new request arrives and takes the lowest free slot
Begin(p) ==
    /\ inflight[p].pc = "idle"
    /\ \A q \in Procs : q < p => inflight[q].pc # "idle"
    /\ calls < MaxCalls
    /\ calls' = calls + 1

At(p, op, pc) == inflight[p].op = op /\ inflight[p].pc = pc

\* a response that ends the request of slot p
Reply(p, r) ==
    /\ resp' = r
    /\ inflight' = [inflight EXCEPT ![p] = Idle]

\* a response of a handler that makes a single database call
Answer(r) ==
    /\ calls < MaxCalls
    /\ calls' = calls + 1
    /\ resp' = r
    /\ UNCHANGED <<users, listings, bids, inflight, agent, toolVars>>

\* variant: the lookup is by listing_id alone
FoundById(lid, seller) == lid \in DOMAIN listings

\* coll.find_one({"listing_id": lid, "seller_id": user_id}) finds a document
OwnedBy(lid, seller) ==
    lid \in DOMAIN listings /\ listings[lid].seller_id = seller

\* coll.update_one({"listing_id": lid}, {"$set": fields})
update_one(lid, fields) ==
    listings' = [listings EXCEPT ![lid] =
        [f \in DOMAIN @ \cup DOMAIN fields |->
            IF f \in DOMAIN fields THEN fields[f] ELSE @[f]]]

----
\* POST /upload

\* the uploaded file: an image (below the 10 MB inline cap), or a file whose
\* content type is not image/*
UploadInputs == {"image", "not_image"}

ImageData(files) ==
    IF files = "image"
    THEN [filename |-> "0.jpg", local_path |-> "uploads/0.jpg", data |-> "bytes"]
    ELSE [filename |-> "0.jpg", local_path |-> "uploads/0.jpg"]

upload_images(tok, files) ==
    LET u == require_seller(tok)
        free == ListingIds \ DOMAIN listings
        lid == CHOOSE l \in free : TRUE
    IN  IF u.status # 200 THEN Answer(u)
        ELSE IF files = "not_image"
             THEN Answer(Error(400, "Fichier invalide"))
        ELSE /\ free # {}
             /\ calls < MaxCalls
             /\ calls' = calls + 1
             /\ listings' = [l \in DOMAIN listings \cup {lid} |->
                    IF l = lid
                    THEN build_listing_document(lid, u.body.user_id, Null,
                                                ImageData(files))
                    ELSE listings[l]]
             /\ resp' = Ok([listing_id |-> lid, message |-> "Annonce creee"])
             /\ UNCHANGED <<users, bids, inflight, agent, toolVars>>

----
\* GET /listing/{id}, GET /listings/{id}, GET /listings/, GET /listings/me,
\* GET /auth/me

fetch_listing_response(tok, lid) ==
    LET u == get_current_user(tok)
        listing == get_listing_by_id(lid)
    IN  IF u.status # 200 THEN u
        ELSE IF listing = Null THEN Error(404, "Listing not found")
        ELSE IF u.body.role = "buyer"
             THEN Ok(Pop(listing[1],
                    {"price_estimation", "ai_analysis", "seller_id",
                     "generated_post", "blockchain", "pipeline_phase"}))
        ELSE Ok(listing[1])

get_listing_response(tok, lid) ==
    LET u == get_current_user(tok)
        listing == get_listing_by_id(lid)
    IN  IF u.status # 200 THEN u
        ELSE IF listing = Null THEN Error(404, "Listing introuvable")
        ELSE IF u.body.role = "buyer"
             THEN Ok(Pop(listing[1],
                    {"price_estimation", "ai_analysis", "seller_id",
                     "generated_post", "blockchain"}))
        ELSE Ok(listing[1])

list_auctions_response(tok) ==
    LET u == get_current_user(tok)
    IN  IF u.status # 200 THEN u
        ELSE IF u.body.role = "buyer"
             THEN Ok([items |-> get_listings_for_buyer])
        ELSE Ok([items |-> get_listings_by_seller(u.body.user_id)])

my_listings_response(tok) ==
    LET u == require_seller(tok)
    IN  IF u.status # 200 THEN u
        ELSE Ok([items |-> get_listings_by_seller(u.body.user_id)])

me_response(tok) ==
    LET u == get_current_user(tok)
    IN  IF u.status # 200 THEN u ELSE Ok(u.body)

fetch_listing(tok, lid) == Answer(fetch_listing_response(tok, lid))

get_listing(tok, lid) == Answer(get_listing_response(tok, lid))

list_auctions(tok) == Answer(list_auctions_response(tok))

my_listings(tok) == Answer(my_listings_response(tok))

me(tok) == Answer(me_response(tok))

----
\* Seller pipeline: POST /listing/{id}/analyze, estimate, generate, deploy.
\* Each handler awaits find_one, then (analyze, estimate) an agent that runs
\* in the worker pool, then update_one.

\* first step of the four handlers: authentication and find_one
PipelineFind(p, op, tok, lid) ==
    LET u == require_seller(tok)
    IN  /\ Begin(p)
        /\ UNCHANGED <<users, listings, bids, agent, toolVars>>
        /\ IF u.status # 200 THEN Reply(p, u)
           ELSE IF ~ OwnedBy(lid, u.body.user_id)
                THEN Reply(p, Error(404, "Listing introuvable"))
           ELSE /\ resp' = NoResp
                /\ inflight' = [inflight EXCEPT ![p] =
                       [Idle EXCEPT !.pc = "update", !.op = op, !.lid = lid,
                                    !.user = u.body.user_id]]

\* what the image lookup of run_authenticity finds: the inline bytes, a
\* temporary file that cannot be written, or neither bytes nor a local file
ImageLookups == {"ok", "tmp_write_fails", "not_found"}

run_authenticity_find(p, tok, lid, img) ==
    LET u == require_seller(tok)
    IN  /\ Begin(p)
        /\ UNCHANGED <<users, listings, bids, agent, toolVars>>
        /\ IF u.status # 200 THEN Reply(p, u)
           ELSE IF ~ OwnedBy(lid, u.body.user_id)
                THEN Reply(p, Error(404, "Listing introuvable"))
           ELSE IF Len(listings[lid].images) = 0
                THEN Reply(p, Error(400, "Aucune image dans ce listing"))
           ELSE IF "data" \in DOMAIN listings[lid].images[1] /\ img = "tmp_write_fails"
                THEN Reply(p, Error(500, "Impossible d'ecrire l'image temporaire"))
           ELSE IF "data" \notin DOMAIN listings[lid].images[1] /\ img = "not_found"
                THEN Reply(p, Error(400, "Image introuvable"))
           ELSE /\ resp' = NoResp
                /\ inflight' = [inflight EXCEPT ![p] =
                       [Idle EXCEPT !.pc = "update", !.op = "analyze", !.lid = lid,
                                    !.user = u.body.user_id]]

\* verdicts GeminiAutonomousAgent.run returns
Verdicts == {"duplicate_or_manipulated", "ai_generated", "validated"}

\* how run_authenticity_analysis ends: a missing API key (ValueError), an
\* agent failure (RuntimeError), or the agent's result
AnalysisOutcomes ==
    { [kind |-> "ValueError", verdict |-> ""],
      [kind |-> "Exception", verdict |-> ""] }
    \cup { [kind |-> "result", verdict |-> v] : v \in Verdicts }

\* variant: only a validated image moves the listing on
AuthenticatedIfValidated(ai_result) ==
    IF ai_result.verdict = "validated"
    THEN [pipeline_phase |-> 2, status |-> "AUTHENTICATED",
          ai_analysis |-> Some(ai_result)]
    ELSE [ai_analysis |-> Some(ai_result)]

\* variant: the handler sets the phase and leaves the status
AuthenticatedPhaseOnly(ai_result) ==
    [pipeline_phase |-> 2, ai_analysis |-> Some(ai_result)]

\* the fields run_authenticity sets once the analysis has returned
Authenticated(ai_result) ==
    [pipeline_phase |-> 2, status |-> "AUTHENTICATED",
     ai_analysis |-> Some(ai_result)]

\* variant: a failed analysis is kept on the listing as its ai_analysis
run_authenticity_keeps_error(p, out) ==
    LET lid == inflight[p].lid
        ai_result == [verdict |-> out.verdict]
    IN  /\ At(p, "analyze", "update")
        /\ UNCHANGED <<users, bids, calls, agent, toolVars>>
        /\ IF out.kind = "ValueError"
           THEN Reply(p, Error(400, "GEMINI_API_KEY manquant")) /\ UNCHANGED listings
           ELSE IF out.kind = "Exception"
                THEN /\ update_one(lid, [ai_analysis |-> Some(ai_result)])
                     /\ Reply(p, Error(500, "Erreur analyse"))
           ELSE /\ update_one(lid, Authenticated(ai_result))
                /\ Reply(p, Ok([message |-> "Verification authenticite terminee",
                                phase |-> 2, ai_analysis |-> ai_result]))

run_authenticity_update(p, out) ==
    LET lid == inflight[p].lid
        ai_result == [verdict |-> out.verdict]
    IN  /\ At(p, "analyze", "update")
        /\ UNCHANGED <<users, bids, calls, agent, toolVars>>
        /\ IF out.kind = "ValueError"
           THEN Reply(p, Error(400, "GEMINI_API_KEY manquant")) /\ UNCHANGED listings
           ELSE IF out.kind = "Exception"
                THEN Reply(p, Error(500, "Erreur analyse")) /\ UNCHANGED listings
           ELSE /\ update_one(lid, Authenticated(ai_result))
                /\ Reply(p, Ok([message |-> "Verification authenticite terminee",
                                phase |-> 2, ai_analysis |-> ai_result]))

run_pricing_find(p, tok, lid) == PipelineFind(p, "estimate", tok, lid)

\* the fallback of run_pricing and of RecommandationPrixAgent.run
\* variant: the handler falls back to the example of the agent's prompt
ExamplePrice ==
    [low |-> 80, median |-> 120, high |-> 180, starting_price |-> 90,
     reasoning |-> "str(e)"]

\* price_result of run_pricing when the agent raises: reasoning is str(e)
DefaultPrice ==
    [low |-> 50, median |-> 100, high |-> 200, starting_price |-> 75,
     reasoning |-> "str(e)"]

\* how RecommandationPrixAgent().run ends: a missing API key (ValueError),
\* any other failure, or a price dictionary (the prompt's example, or the
\* agent's own fallback when the model output cannot be parsed)
PricingOutcomes ==
    { [kind |-> "ValueError", price |-> DefaultPrice],
      [kind |-> "Exception", price |-> DefaultPrice],
      [kind |-> "result",
       price |-> [low |-> 50, median |-> 100, high |-> 200, starting_price |-> 75,
                  reasoning |-> "Impossible de parser la reponse Gemini"]],
      [kind |-> "result",
       price |-> [low |-> 80, median |-> 120, high |-> 180, starting_price |-> 90,
                  reasoning |-> "Objet courant"]] }

run_pricing_update(p, out) ==
    LET lid == inflight[p].lid
        price_result == IF out.kind = "Exception" THEN DefaultPrice ELSE out.price
        starting == price_result.starting_price
        price_estimation == [low |-> price_result.low,
                             median |-> price_result.median,
                             high |-> price_result.high,
                             reasoning |-> price_result.reasoning]
    IN  /\ At(p, "estimate", "update")
        /\ UNCHANGED <<users, bids, calls, agent, toolVars>>
        /\ IF out.kind = "ValueError"
           THEN Reply(p, Error(400, "GEMINI_API_KEY manquant")) /\ UNCHANGED listings
           ELSE /\ update_one(lid, [pipeline_phase |-> 3,
                                    status |-> "PRICED",
                                    starting_price |-> Some(starting),
                                    price_estimation |-> Some(price_estimation)])
                /\ Reply(p, Ok([message |-> "Estimation prix terminee", phase |-> 3,
                                starting_price |-> starting,
                                price_estimation |-> price_estimation]))

run_post_gen_find(p, tok, lid) == PipelineFind(p, "generate", tok, lid)

run_post_gen_update(p) ==
    /\ At(p, "generate", "update")
    /\ UNCHANGED <<users, bids, calls, agent, toolVars>>
    /\ update_one(inflight[p].lid,
                  [pipeline_phase |-> 4,
                   status |-> "POSTED",
                   title |-> Some("Objet d'art - Titre genere par IA"),
                   generated_post |-> Some([title |-> "...", description |-> "..."])])
    /\ Reply(p, Ok([message |-> "Post genere", phase |-> 4]))

\* timedelta(days=7)
AuctionDays == 7

deploy_auction_find(p, tok, lid) == PipelineFind(p, "deploy", tok, lid)

deploy_auction_update(p) ==
    /\ At(p, "deploy", "update")
    /\ UNCHANGED <<users, bids, calls, agent, toolVars>>
    /\ update_one(inflight[p].lid,
                  [pipeline_phase |-> 5,
                   status |-> "AUCTION_ACTIVE",
                   participants_count |-> 0,
                   end_time |-> Some(now + AuctionDays),
                   blockchain |-> [auction_address |-> Some(inflight[p].lid),
                                   tx_hash |-> Some("0x...")]])
    /\ Reply(p, Ok([message |-> "Enchere lancee", phase |-> 5,
                    end_time |-> now + AuctionDays]))

----
\* POST /listing/{id}/bid

\* request bodies: no "amount", a non-numeric one, or a number
BidBodies ==
    { [kind |-> "missing", val |-> 0], [kind |-> "text", val |-> 0] }
    \cup { [kind |-> "number", val |-> v] : v \in {0, 75, 90} }

\* variant: the handler compares the amount with no minimum price
MinPriceIgnored(doc) == 0

\* listing.get("starting_price") or 0
MinPrice(doc) == IF doc.starting_price = Null THEN 0 ELSE doc.starting_price[1]

\* bids of the model's budget that are already committed to an insert
PendingInserts == Cardinality({q \in Procs : inflight[q].pc = "insert"})

\* place_bid up to its first write: the response that rejects the request,
\* or NoResp when the handler goes on to insert the bid
place_bid_check(tok, lid, body) ==
    LET u == require_buyer(tok)
    IN  IF u.status # 200 THEN u
        ELSE IF body.kind # "number" \/ body.val <= 0
             THEN Error(400, "Montant invalide")
        ELSE IF ~ (lid \in DOMAIN listings
                   /\ listings[lid].status = "AUCTION_ACTIVE")
             THEN Error(404, "Enchere introuvable ou terminee")
        ELSE IF body.val < MinPrice(listings[lid])
             THEN Error(400, "Le montant doit etre au moins min_price")
        ELSE NoResp

place_bid_find(p, tok, lid, body) ==
    LET r == place_bid_check(tok, lid, body)
    IN  /\ Begin(p)
        /\ UNCHANGED <<users, listings, bids, agent, toolVars>>
        /\ IF r.status # 0 THEN Reply(p, r)
           ELSE /\ Len(bids) + PendingInserts < MaxBids
                /\ resp' = NoResp
                /\ inflight' = [inflight EXCEPT ![p] =
                       [Idle EXCEPT !.pc = "insert", !.op = "bid", !.lid = lid,
                                    !.user = require_buyer(tok).body.user_id,
                                    !.amount = body.val]]

\* variant: one record per (listing, bidder); a later bid replaces the earlier
upsert_one(coll, doc) ==
    IF \E i \in 1..Len(coll) : /\ coll[i].listing_id = doc.listing_id
                               /\ coll[i].user_id = doc.user_id
    THEN [i \in 1..Len(coll) |->
            IF coll[i].listing_id = doc.listing_id /\ coll[i].user_id = doc.user_id
            THEN doc ELSE coll[i]]
    ELSE Append(coll, doc)

\* bids_coll.insert_one
insert_one(coll, doc) == Append(coll, doc)

place_bid_insert(p) ==
    /\ At(p, "bid", "insert")
    /\ bids' = insert_one(bids, [listing_id |-> inflight[p].lid,
                                 user_id |-> inflight[p].user,
                                 amount |-> inflight[p].amount])
    /\ inflight' = [inflight EXCEPT ![p].pc = "distinct"]
    /\ resp' = NoResp
    /\ UNCHANGED <<users, listings, calls, agent, toolVars>>

\* variant: the handler counts the distinct amounts of the listing's bids
distinct_amounts(coll, lid) ==
    { coll[i].amount : i \in {j \in 1..Len(coll) : coll[j].listing_id = lid} }

\* bids_coll.distinct("user_id", {"listing_id": lid})
distinct_bidders(coll, lid) ==
    { coll[i].user_id : i \in {j \in 1..Len(coll) : coll[j].listing_id = lid} }

place_bid_distinct(p) ==
    /\ At(p, "bid", "distinct")
    /\ inflight' = [inflight EXCEPT ![p].pc = "update",
                        ![p].n = Cardinality(distinct_bidders(bids, inflight[p].lid))]
    /\ resp' = NoResp
    /\ UNCHANGED <<users, listings, bids, calls, agent, toolVars>>

\* the response of an accepted bid
BidAccepted(n) == Ok([message |-> "Offre enregistree (scellee)", participants |-> n])

place_bid_update(p) ==
    /\ At(p, "bid", "update")
    /\ update_one(inflight[p].lid, [participants_count |-> inflight[p].n])
    /\ Reply(p, BidAccepted(inflight[p].n))
    /\ UNCHANGED <<users, bids, calls, agent, toolVars>>

\* what place_bid answers when it runs uninterrupted on bids collection coll
place_bid_response(tok, lid, body, coll) ==
    LET r == place_bid_check(tok, lid, body)
        doc == [listing_id |-> lid, user_id |-> require_buyer(tok).body.user_id,
                amount |-> body.val]
    IN  IF r.status # 0 THEN r
        ELSE BidAccepted(Cardinality(distinct_bidders(insert_one(coll, doc), lid)))

----
\* GeminiAutonomousAgent.run

\* One call of run(image_path, category, description).  Scores are in units
\* of 1/10000 (the detectors round to four digits); the raw ELA score, from
\* which ELADetector.analyze takes the verdict before it rounds, is in
\* units of 1/100000.

ElaRawScores == {20000, 39996, 45000, 80000}

ReverseScores == {3000, 8000, 9000}

AiScores == {2000, 7000, 9000}

\* the text of a Gemini decision: whether it contains "stop", "proceed"
LlmReplies == [stop : BOOLEAN, proceed : BOOLEAN]

\* round(suspicion_score, 4)
Round4(raw) == (raw + 5) \div 10

\* ELADetector.analyze: the verdict tiers (cutoffs 0.4 and 0.7)
ElaVerdict(raw) ==
    IF raw >= 70000 THEN "likely_manipulated"
    ELSE IF raw >= 40000 THEN "suspicious"
    ELSE "clean"

\* no Gemini decision has been received
NoReply == [stop |-> FALSE, proceed |-> FALSE]

AgentIdle ==
    [ pc |-> "constructed", trace |-> << >>, has_query |-> FALSE,
      ela_verdict |-> "", ela_score |-> 0, reverse_score |-> 0,
      ai_score |-> 0, sdxl_score |-> 0, llm_calls |-> 0,
      report |-> "", comparative |-> FALSE, verdict |-> "",
      technical_reply |-> NoReply, ai_reply |-> NoReply ]

AgentInit == agent = AgentIdle

AgentStep(next) ==
    /\ agent' = next
    /\ UNCHANGED <<apiVars, toolVars>>

\* run is called; category and description are each None or a text
agent_run(category, description) ==
    /\ agent.pc = "constructed"
    /\ AgentStep([agent EXCEPT !.pc = "ela",
                               !.has_query = (category # Null \/ description # Null)])

\* Step 1: self.ela_detector.analyze
ela_analyze(raw) ==
    /\ agent.pc = "ela"
    /\ AgentStep([agent EXCEPT !.pc = "exif",
                               !.trace = Append(@, "ela"),
                               !.ela_verdict = ElaVerdict(raw),
                               !.ela_score = Round4(raw)])

\* Step 1: self.exif_analyzer.analyze
exif_analyze ==
    /\ agent.pc = "exif"
    /\ AgentStep([agent EXCEPT !.pc = "reverse", !.trace = Append(@, "exif")])

\* Step 2: self.reverse_searcher.analyze
reverse_analyze(score) ==
    /\ agent.pc = "reverse"
    /\ AgentStep([agent EXCEPT !.pc = "technical_decision",
                               !.trace = Append(@, "reverse"),
                               !.reverse_score = score])

\* variant: the override for a very low ELA score is missing
TechnicalSignalsOkStrict ==
    /\ agent.ela_verdict \in {"clean", ""}
    /\ agent.ela_score < 5000
    /\ agent.reverse_score < 8000

\* the rule-based override: no Gemini decision is asked for
TechnicalSignalsOk ==
    LET ela_verdict_ok == agent.ela_verdict \in {"clean", ""}
        ela_score_low == agent.ela_score < 5000
        ela_very_low == agent.ela_score < 4000
        reverse_score_ok == agent.reverse_score < 8000
    IN  \/ ela_verdict_ok /\ ela_very_low
        \/ ela_verdict_ok /\ ela_score_low /\ reverse_score_ok

\* "stop" in gemini_text and "proceed" not in gemini_text
SaysStop(reply) == reply.stop /\ ~ reply.proceed

\* variant: the early exit after the technical signals reports "duplicate"
DuplicateVerdict == "duplicate"

\* verdict of the early exit after the technical signals
TechnicalExitVerdict == "duplicate_or_manipulated"

\* verdict of the early exit after the AI detectors
AiExitVerdict == "ai_generated"

\* verdict of a run that reaches the end
FinalVerdict == "validated"

technical_decision(reply) ==
    /\ agent.pc = "technical_decision"
    /\ IF TechnicalSignalsOk
       THEN AgentStep([agent EXCEPT !.pc = "ai_detection"])
       ELSE IF SaysStop(reply)
            THEN AgentStep([agent EXCEPT !.pc = "returned",
                                         !.trace = Append(@, "technical_llm"),
                                         !.llm_calls = @ + 1,
                                         !.technical_reply = reply,
                                         !.verdict = TechnicalExitVerdict])
       ELSE AgentStep([agent EXCEPT !.pc = "ai_detection",
                                    !.trace = Append(@, "technical_llm"),
                                    !.llm_calls = @ + 1,
                                    !.technical_reply = reply])

\* Step 4: self.ai_detector.analyze (umm-maybe)
ai_detect(score) ==
    /\ agent.pc = "ai_detection"
    /\ AgentStep([agent EXCEPT !.pc = "sdxl_detection",
                               !.trace = Append(@, "ai_detection"),
                               !.ai_score = score])

\* Step 4: self.sdxl_detector.analyze
sdxl_detect(score) ==
    /\ agent.pc = "sdxl_detection"
    /\ AgentStep([agent EXCEPT !.pc = "ai_decision",
                               !.trace = Append(@, "sdxl_detection"),
                               !.sdxl_score = score])

ai_decision(reply) ==
    LET ai_scores_low == agent.ai_score < 7000 /\ agent.sdxl_score < 7000
    IN  /\ agent.pc = "ai_decision"
        /\ IF ai_scores_low
           THEN AgentStep([agent EXCEPT !.pc = "vision"])
           ELSE IF SaysStop(reply)
                THEN AgentStep([agent EXCEPT !.pc = "returned",
                                             !.trace = Append(@, "ai_llm"),
                                             !.llm_calls = @ + 1,
                                             !.ai_reply = reply,
                                             !.verdict = AiExitVerdict])
           ELSE AgentStep([agent EXCEPT !.pc = "vision",
                                        !.trace = Append(@, "ai_llm"),
                                        !.llm_calls = @ + 1,
                                        !.ai_reply = reply])

\* Step 5: self.vision_analyzer.analyze; full_report may be empty
VisionReports == {"", "report"}

vision_analyze(full_report) ==
    /\ agent.pc = "vision"
    /\ AgentStep([agent EXCEPT !.pc = "comparative",
                               !.trace = Append(@, "vision"),
                               !.report = full_report])

\* Step 6: the comparative search runs only on a non-empty search query
comparative_search ==
    LET search_query_empty == ~ agent.has_query /\ agent.report = ""
    IN  /\ agent.pc = "comparative"
        /\ IF search_query_empty
           THEN AgentStep([agent EXCEPT !.pc = "reasoning"])
           ELSE AgentStep([agent EXCEPT !.pc = "reasoning",
                                        !.trace = Append(@, "comparative"),
                                        !.comparative = TRUE])

\* Step 7: the final Gemini call, and the result
authenticity_reasoning ==
    /\ agent.pc = "reasoning"
    /\ AgentStep([agent EXCEPT !.pc = "returned",
                               !.trace = Append(@, "reasoning"),
                               !.llm_calls = @ + 1,
                               !.verdict = FinalVerdict])

\* a tool or a Gemini call raises: run ends without a result
agent_raises ==
    /\ agent.pc \notin {"constructed", "returned", "raised"}
    /\ AgentStep([agent EXCEPT !.pc = "raised"])

----
\* RecommandationPrixAgent.run

\* The text of the Gemini reply is described by what each extraction
\* attempt of _parse_json_response finds in it.

PriceKeys == {"low", "median", "high", "starting_price"}

\* a field of a JSON object: absent, null, a number, a text that float()
\* rejects
Absent == [kind |-> "absent", val |-> 0]

JsonNull == [kind |-> "null", val |-> 0]

Num(n) == [kind |-> "number", val |-> n]

JsonText == [kind |-> "text", val |-> 0]

NoFields == [k \in PriceKeys |-> Absent]

\* a JSON value as json.loads returns it; truthy is bool(value)
JsonObject(fields) ==
    [kind |-> "object", truthy |-> (\E k \in PriceKeys : fields[k].kind # "absent"),
     fields |-> fields]

JsonScalar(kind, truthy) == [kind |-> kind, truthy |-> truthy, fields |-> NoFields]

\* the objects the model is made to reply: the prompt's example, an object
\* with one usable field, an object with unusable fields, the empty object
JsonObjects ==
    { JsonObject([low |-> Num(80), median |-> Num(120), high |-> Num(180),
                  starting_price |-> Num(90)]),
      JsonObject([low |-> Num(10), median |-> Absent, high |-> Absent,
                  starting_price |-> Absent]),
      JsonObject([low |-> JsonText, median |-> JsonNull, high |-> Num(180),
                  starting_price |-> Absent]),
      JsonObject(NoFields) }

\* the JSON values that are not objects
JsonOthers ==
    { JsonScalar("number", TRUE), JsonScalar("number", FALSE),
      JsonScalar("array", TRUE), JsonScalar("array", FALSE),
      JsonScalar("string", TRUE), JsonScalar("string", FALSE),
      JsonScalar("true", TRUE), JsonScalar("false", FALSE),
      JsonScalar("null", FALSE) }

\* what one attempt finds: no match of its regular expression, a match that
\* json.loads rejects (JSONDecodeError), or a value
NoMatch == [found |-> "none", value |-> JsonScalar("null", FALSE)]

Undecodable == [found |-> "invalid", value |-> JsonScalar("null", FALSE)]

Decoded(v) == [found |-> "value", value |-> v]

\* the replies: a fenced block (the whole text is then no JSON), a text
\* that is a JSON value, or a text that is not, with or without a
\* brace-delimited part
PriceTexts ==
    { [fenced |-> Decoded(o), whole |-> Undecodable, brace |-> Decoded(o)] :
        o \in JsonObjects }
    \cup { [fenced |-> Undecodable, whole |-> Undecodable, brace |-> b] :
             b \in {Undecodable} \cup {Decoded(o) : o \in JsonObjects} }
    \cup { [fenced |-> NoMatch, whole |-> Decoded(o), brace |-> Decoded(o)] :
             o \in JsonObjects }
    \cup { [fenced |-> NoMatch, whole |-> Decoded(v), brace |-> NoMatch] :
             v \in JsonOthers }
    \cup { [fenced |-> NoMatch, whole |-> Undecodable, brace |-> b] :
             b \in {NoMatch, Undecodable} \cup {Decoded(o) : o \in JsonObjects} }

\* the fallback of run when nothing was parsed
PriceFallback == [low |-> 50, median |-> 100, high |-> 200, starting_price |-> 75]

NoPrice == [low |-> 0, median |-> 0, high |-> 0, starting_price |-> 0]

PriceIdle ==
    [ pc |-> "constructed", text |-> [fenced |-> NoMatch, whole |-> NoMatch,
                                       brace |-> NoMatch],
      parsed |-> NoMatch, result |-> NoPrice, error |-> "" ]

PriceStep(next) ==
    /\ price' = next
    /\ UNCHANGED <<apiVars, agent, upload, vision, qdrant, ela, now>>

\* run: the prompt is sent and the reply text received
price_generate_content(text) ==
    /\ price.pc = "constructed"
    /\ PriceStep([price EXCEPT !.pc = "fenced", !.text = text])

\* run: generate_content raises
price_generate_raises ==
    /\ price.pc = "constructed"
    /\ PriceStep([price EXCEPT !.pc = "raised", !.error = "Exception"])

\* _parse_json_response, first attempt: the fenced block
price_parse_fenced ==
    /\ price.pc = "fenced"
    /\ IF price.text.fenced.found = "value"
       THEN PriceStep([price EXCEPT !.pc = "check", !.parsed = price.text.fenced])
       ELSE PriceStep([price EXCEPT !.pc = "whole"])

\* second attempt: json.loads(text)
price_parse_whole ==
    /\ price.pc = "whole"
    /\ IF price.text.whole.found = "value"
       THEN PriceStep([price EXCEPT !.pc = "check", !.parsed = price.text.whole])
       ELSE PriceStep([price EXCEPT !.pc = "brace"])

\* third attempt: the first brace-delimited part; else None
price_parse_brace ==
    /\ price.pc = "brace"
    /\ IF price.text.brace.found = "value"
       THEN PriceStep([price EXCEPT !.pc = "check", !.parsed = price.text.brace])
       ELSE PriceStep([price EXCEPT !.pc = "check", !.parsed = NoMatch])

\* float(parsed[key]) or 100.0
PriceField(f) == IF f.kind = "number" THEN f.val ELSE 100

\* run after the parse: the fallback if not parsed, else the numeric fields
\* are made floats; "key in parsed" and "parsed[key] = ..." raise TypeError
\* on a value that is no dict
price_return ==
    /\ price.pc = "check"
    /\ IF price.parsed.found # "value" \/ ~ price.parsed.value.truthy
       THEN PriceStep([price EXCEPT !.pc = "returned", !.result = PriceFallback])
       ELSE IF price.parsed.value.kind # "object"
            THEN PriceStep([price EXCEPT !.pc = "raised", !.error = "TypeError"])
       ELSE PriceStep([price EXCEPT
                !.pc = "returned",
                !.result = [k \in PriceKeys |->
                               PriceField(price.parsed.value.fields[k])]])

----
\* upload_images: the loop over the uploaded files

\* The handler as a loop: file i is checked, then written to
\* uploads/<listing_id>-<i>.<ext> (path i in the model), and after the last
\* file the listing document is inserted.  Path 0 is a file of another
\* listing that is on the disk before the request.

\* largest number of files in one request
MaxFiles == 3

\* an uploaded file: an image of at most 10 MB, a larger image, or a file
\* whose content type is not image/*
FileTypes == {"image", "big_image", "other"}

UploadFiles == UNION { [1..n -> FileTypes] : n \in 0..MaxFiles }

\* how writing a file ends: written; open() raises and creates nothing;
\* buffer.write raises and leaves the file it created
WriteOutcomes == {"ok", "open_fails", "write_fails"}

UploadIdle ==
    [ pc |-> "idle", files |-> << >>, i |-> 1, saved_paths |-> << >>,
      written |-> {}, inline |-> {}, disk |-> {0}, inserted |-> FALSE,
      status |-> 0 ]

UploadStep(next) ==
    /\ upload' = next
    /\ UNCHANGED <<apiVars, agent, price, vision, qdrant, ela, now>>

\* variant: the failure path raises without removing anything
RemoveNothing(disk, saved_paths) == disk

\* for p in saved_paths: if os.path.exists(p): os.remove(p)
RemoveSaved(disk, saved_paths) ==
    disk \ {saved_paths[k] : k \in 1..Len(saved_paths)}

\* the request fails with the given status after the cleanup
UploadFails(code, disk) ==
    UploadStep([upload EXCEPT !.pc = "done", !.status = code,
                              !.disk = RemoveSaved(disk, upload.saved_paths)])

\* a request arrives with its files
upload_receive(files) ==
    /\ upload.pc = "idle"
    /\ IF Len(files) = 0
       THEN UploadStep([upload EXCEPT !.pc = "done", !.status = 400])
       ELSE UploadStep([upload EXCEPT !.pc = "check", !.files = files])

\* the loop head and the content-type check of file i
upload_check ==
    /\ upload.pc = "check"
    /\ IF upload.i > Len(upload.files)
       THEN UploadStep([upload EXCEPT !.pc = "insert"])
       ELSE IF upload.files[upload.i] = "other"
            THEN UploadFails(400, upload.disk)
       ELSE UploadStep([upload EXCEPT !.pc = "write"])

\* file i is read and written to the disk; its bytes go into the document
\* if they are at most 10 MB
upload_write(outcome) ==
    /\ upload.pc = "write"
    /\ IF outcome = "ok"
       THEN UploadStep([upload EXCEPT
                !.pc = "check",
                !.disk = @ \cup {upload.i},
                !.written = @ \cup {upload.i},
                !.inline = IF upload.files[upload.i] = "image"
                           THEN @ \cup {upload.i} ELSE @,
                !.saved_paths = Append(@, upload.i),
                !.i = @ + 1])
       ELSE IF outcome = "open_fails"
            THEN UploadFails(500, upload.disk)
       ELSE UploadFails(500, upload.disk \cup {upload.i})

\* insert_one of the listing document: it succeeds or raises
upload_insert(ok) ==
    /\ upload.pc = "insert"
    /\ IF ok
       THEN UploadStep([upload EXCEPT !.pc = "done", !.status = 200,
                                      !.inserted = TRUE])
       ELSE UploadFails(500, upload.disk)

----
\* VisionAgent.run

\* A model output is described, as for the price agent, by what json.loads
\* makes of the whole text and of the match of the brace pattern in it.

VisionObject ==
    JsonObject([low |-> Num(80), median |-> Absent, high |-> Absent,
                starting_price |-> Absent])

\* outputs: a JSON value (an object, the empty object, a number, null, the
\* empty array), or a text that is no JSON, with or without a brace match
VisionTexts ==
    { [whole |-> Decoded(VisionObject), brace |-> Decoded(VisionObject)],
      [whole |-> Decoded(JsonObject(NoFields)),
       brace |-> Decoded(JsonObject(NoFields))],
      [whole |-> Decoded(JsonScalar("number", TRUE)), brace |-> NoMatch],
      [whole |-> Decoded(JsonScalar("null", FALSE)), brace |-> NoMatch],
      [whole |-> Decoded(JsonScalar("array", FALSE)), brace |-> NoMatch] }
    \cup { [whole |-> Undecodable, brace |-> b] :
             b \in {NoMatch, Undecodable, Decoded(VisionObject),
                    Decoded(JsonObject(NoFields))} }

NoText == [whole |-> NoMatch, brace |-> NoMatch]

VisionIdle ==
    [ pc |-> "constructed", text |-> NoText, repair_text |-> NoText,
      data |-> NoMatch, trace |-> << >>, result |-> "" ]

VisionStep(next) ==
    /\ vision' = next
    /\ UNCHANGED <<apiVars, agent, price, upload, qdrant, ela, now>>

\* variant: the repair is asked for whatever was extracted
NeverUsable(data) == TRUE

\* "not data": nothing was extracted, or a value that is falsy
NotData(data) == data.found # "value" \/ ~ data.value.truthy

\* run: the completion of the vision model
vision_completion(text) ==
    /\ vision.pc = "constructed"
    /\ VisionStep([vision EXCEPT !.pc = "direct", !.text = text])

\* the text _extract_json is working on: the model output, or the output
\* of the repair call
VisionCurrent == IF vision.pc \in {"direct", "regex"}
                 THEN vision.text ELSE vision.repair_text

\* _extract_json: json.loads(text)
vision_direct ==
    /\ vision.pc \in {"direct", "repair_direct"}
    /\ IF VisionCurrent.whole.found = "value"
       THEN VisionStep([vision EXCEPT
                !.pc = IF vision.pc = "direct" THEN "decide" ELSE "return",
                !.trace = Append(@, "direct"),
                !.data = VisionCurrent.whole])
       ELSE VisionStep([vision EXCEPT
                !.pc = IF vision.pc = "direct" THEN "regex" ELSE "repair_regex",
                !.trace = Append(@, "direct")])

\* _extract_json: the brace pattern, else None
vision_regex ==
    /\ vision.pc \in {"regex", "repair_regex"}
    /\ VisionStep([vision EXCEPT
            !.pc = IF vision.pc = "regex" THEN "decide" ELSE "return",
            !.trace = Append(@, "regex"),
            !.data = IF VisionCurrent.brace.found = "value"
                     THEN VisionCurrent.brace ELSE NoMatch])

\* run: "if not data: data = self._repair_json(text)"
vision_decide(repaired) ==
    /\ vision.pc = "decide"
    /\ IF NotData(vision.data)
       THEN VisionStep([vision EXCEPT !.pc = "repair_direct",
                                      !.trace = Append(@, "repair"),
                                      !.repair_text = repaired])
       ELSE VisionStep([vision EXCEPT !.pc = "return"])

\* run: "if data: return data", else the error payload
vision_return ==
    /\ vision.pc = "return"
    /\ IF NotData(vision.data)
       THEN VisionStep([vision EXCEPT !.pc = "returned", !.result = "INVALID_JSON"])
       ELSE VisionStep([vision EXCEPT !.pc = "returned", !.result = "data"])

----
\* DuplicateCheckerQdrant

VECTOR_SIZE == 64

\* __init__: threshold, the largest Hamming distance of a duplicate
threshold == 10

\* the most points the collection is let grow to
MaxPoints == 2

\* A perceptual hash is the set of its bits that are 1, bit 1 being the
\* most significant of the 64. The test images hash at distances 10, 11
\* and 1 from each other.
LowBits(k) == 1..k

Bytes == {"blank", "ten", "eleven"}

\* _compute_phash: a function of the image content alone
compute_phash(bytes) ==
    CASE bytes = "blank"  -> LowBits(0)
      [] bytes = "ten"    -> (VECTOR_SIZE - 9)..VECTOR_SIZE
      [] OTHER            -> (VECTOR_SIZE - 10)..VECTOR_SIZE

Paths == {"x/a.jpg", "y/a.jpg", "b.jpg"}

\* os.path.basename
basename(path) == IF path = "b.jpg" THEN "b.jpg" ELSE "a.jpg"

Metadata == {"", "alice"}

\* the binary digits of the hash, most significant first
HashDigits(ph) == [i \in 1..VECTOR_SIZE |-> IF i \in ph THEN 1 ELSE 0]

RECURSIVE StripZeros(_)
\* int(str(ph), 16) and bin(...)[2:]: the digits without leading zeros
\* ("0" for the number 0)
StripZeros(digits) ==
    IF Len(digits) <= 1 \/ digits[1] = 1 THEN digits
    ELSE StripZeros(Tail(digits))

\* str.zfill
zfill(digits, width) ==
    IF Len(digits) >= width THEN digits
    ELSE [i \in 1..(width - Len(digits)) |-> 0] \o digits

phash_to_vector(ph) == zfill(StripZeros(HashDigits(ph)), VECTOR_SIZE)

RECURSIVE SquaredSum(_, _, _)
SquaredSum(u, v, i) ==
    IF i = 0 THEN 0
    ELSE (u[i] - v[i]) * (u[i] - v[i]) + SquaredSum(u, v, i - 1)

\* Distance.EUCLID, squared: the score of a point is its square root, and
\* round(score ** 2) gives this number back
EuclidSquared(u, v) == SquaredSum(u, v, VECTOR_SIZE)

\* query_points(limit=1): the stored points nearest to the query vector,
\* each with the square of its score
Nearest(points, vector) ==
    LET scored == { <<pt, EuclidSquared(pt.vector, vector)>> : pt \in points }
    IN  { top \in scored : \A other \in scored : top[2] <= other[2] }

NoPayload == [filename |-> "", phash |-> {}, meta |-> ""]

QdrantIdle ==
    [ pc |-> "idle", points |-> {}, next_id |-> 1, last |-> "",
      image |-> [path |-> "", bytes |-> ""],
      is_duplicate |-> FALSE, payload |-> NoPayload, hamming_approx |-> -1,
      added |-> {}, point_id |-> 0 ]

QdrantStep(next) ==
    /\ qdrant' = next
    /\ UNCHANGED <<apiVars, agent, price, upload, vision, ela, now>>

\* variant: a duplicate only strictly below the threshold
BelowThreshold(hamming_approx) == hamming_approx < threshold

WithinThreshold(hamming_approx) == hamming_approx <= threshold

\* check_duplicate, as a change of the checker state q
Checked(q, image) ==
    LET vector == phash_to_vector(compute_phash(image.bytes))
        tops == Nearest(q.points, vector)
    IN  IF q.points = {}
        THEN { [q EXCEPT !.last = "check", !.image = image,
                         !.is_duplicate = FALSE, !.payload = NoPayload,
                         !.hamming_approx = -1] }
        ELSE { IF WithinThreshold(top[2])
               THEN [q EXCEPT !.last = "check", !.image = image,
                              !.is_duplicate = TRUE, !.payload = top[1].payload,
                              !.hamming_approx = top[2]]
               ELSE [q EXCEPT !.last = "check", !.image = image,
                              !.is_duplicate = FALSE, !.payload = NoPayload,
                              !.hamming_approx = top[2]]
               : top \in tops }

\* add_to_db, as a change of the checker state q
Added(q, image, metadata) ==
    LET filename == basename(image.path)
        existing == { pt \in q.points : pt.payload.filename = filename }
        ph == compute_phash(image.bytes)
    IN  IF existing # {}
        THEN { [q EXCEPT !.last = "add", !.image = image,
                         !.added = @ \cup {image.bytes}, !.point_id = pt.id]
               : pt \in existing }
        ELSE { [q EXCEPT !.last = "add", !.image = image,
                         !.added = @ \cup {image.bytes},
                         !.point_id = q.next_id, !.next_id = @ + 1,
                         !.points = @ \cup
                            { [id |-> q.next_id, vector |-> phash_to_vector(ph),
                               payload |-> [filename |-> filename, phash |-> ph,
                                            meta |-> metadata]] }] }

Images == [path : Paths, bytes : Bytes]

check_duplicate(image) ==
    /\ qdrant.pc = "idle"
    /\ \E q \in Checked(qdrant, image) : QdrantStep(q)

add_to_db(image, metadata) ==
    /\ qdrant.pc = "idle"
    /\ Cardinality(qdrant.points) < MaxPoints
    /\ \E q \in Added(qdrant, image, metadata) : QdrantStep(q)

\* the example: check_duplicate ...
example_check(image) ==
    /\ qdrant.pc = "idle"
    /\ Cardinality(qdrant.points) < MaxPoints
    /\ \E q \in Checked(qdrant, image) :
          QdrantStep([q EXCEPT !.pc = "example", !.last = "example_check"])

\* ... and add_to_db if it is no duplicate
example_add ==
    /\ qdrant.pc = "example"
    /\ IF qdrant.is_duplicate
       THEN QdrantStep([qdrant EXCEPT !.pc = "idle", !.last = "example_duplicate"])
       ELSE \E q \in Added(qdrant, qdrant.image, "alice") :
               QdrantStep([q EXCEPT !.pc = "idle", !.last = "example_added"])

----
\* ELADetector._build_suspicion_score

\* the number of pixels of the test image
Pixels == 10

\* __init__: anomaly_threshold, the per-pixel error above which a pixel
\* counts as an anomaly
anomaly_threshold == 15

\* A test image has the error level `background` on every pixel but the
\* `splice` pixels of the injected region, which have the error `level`.
SpliceImages ==
    { im \in [background : {0, 1, 3, 8, 20}, splice : {1, 2, 5},
              level : {1, 3, 10, 16, 30, 60, 255}] :
        im.level >= im.background }

\* _compute_scores: the sum of the pixel errors (mean_error times the
\* number of pixels), max_error, and the number of pixels above the
\* anomaly threshold (high_error_ratio times the number of pixels)
compute_scores(im) ==
    [ sum  |-> im.splice * im.level + (Pixels - im.splice) * im.background,
      max  |-> IF im.level >= im.background THEN im.level ELSE im.background,
      high |-> (IF im.level > anomaly_threshold THEN im.splice ELSE 0)
               + (IF im.background > anomaly_threshold
                  THEN Pixels - im.splice ELSE 0) ]

\* _build_suspicion_score, in thousandths, each part rounded down. The
\* contrast ratio max_error / (mean_error + 1e-6) lies just below
\* max * Pixels / sum.
build_suspicion_score(m) ==
    LET Min(a, b) == IF a <= b THEN a ELSE b
        ratio_score == Min((5000 * m.high) \div Pixels, 500)
        contrast_ratio == (m.max * Pixels * 1000 - 1) \div m.sum
        contrast_score == Min((contrast_ratio - 1000) \div 30, 300)
        contrast == IF m.sum > 0 /\ contrast_score > 0 THEN contrast_score ELSE 0
        hotspots == IF m.sum < 5 * Pixels /\ 100 * m.high > 2 * Pixels
                    THEN 200 ELSE 0
    IN  Min(ratio_score + contrast + hotspots, 1000)

ElaIdle ==
    [ pc |-> "idle", image |-> [background |-> 0, splice |-> 0, level |-> 0],
      score |-> 0, weaker |-> 0 ]

\* analyze: the score of an image with an injected splice
ela_score(im) ==
    /\ ela.pc = "idle"
    /\ ela' = [ela EXCEPT !.pc = "scored", !.image = im,
                          !.score = build_suspicion_score(compute_scores(im)),
                          !.weaker = build_suspicion_score(compute_scores(im))]
    /\ UNCHANGED <<apiVars, agent, price, upload, vision, qdrant, now>>

\* analyze: the score of the same image with the splice made stronger
ela_strengthen(level) ==
    /\ ela.pc = "scored"
    /\ level > ela.image.level
    /\ [ela.image EXCEPT !.level = level] \in SpliceImages
    /\ ela' = [ela EXCEPT
            !.image.level = level,
            !.weaker = ela.score,
            !.score = build_suspicion_score(
                          compute_scores([ela.image EXCEPT !.level = level]))]
    /\ UNCHANGED <<apiVars, agent, price, upload, vision, qdrant, now>>

----
----
\* POST /auth/register

\* UserCreate bodies: an email that a seeded account uses, or a new one
UserCreates == [email : {"s1@x", "new@x"}, role : {"seller", "buyer"}]

\* str(uuid.uuid4()): identifiers that no user has yet
NewUserIds == {"u1", "u2", "u3", "u4", "u5", "u6", "u7", "u8"}

\* coll.find_one({"email": data.email})
register_find(p, data) ==
    /\ Begin(p)
    /\ UNCHANGED <<users, listings, bids, agent, toolVars>>
    /\ IF \E u \in users : u.email = data.email
       THEN Reply(p, Error(400, "Cet email est deja utilise"))
       ELSE /\ resp' = NoResp
            /\ inflight' = [inflight EXCEPT ![p] =
                   [pc |-> "insert", op |-> "register", lid |-> "", user |-> "",
                    amount |-> 0, n |-> 0, data |-> data]]

\* coll.insert_one(doc) and the token response
register_insert(p) ==
    LET free == NewUserIds \ {u.user_id : u \in users}
        user_id == CHOOSE id \in free : TRUE
        data == inflight[p].data
    IN  /\ At(p, "register", "insert")
        /\ free # {}
        /\ users' = users \cup
               {[user_id |-> user_id, email |-> data.email, role |-> data.role]}
        /\ Reply(p, Ok([access_token |-> user_id,
                        user |-> [user_id |-> user_id, email |-> data.email,
                                  role |-> data.role]]))
        /\ UNCHANGED <<listings, bids, calls, agent, toolVars>>

----
\* The clock

\* the number of steps of the clock
MaxTicks == 1

\* time passes: datetime.utcnow() is a day past the length of an auction
\* later than before
clock_tick ==
    /\ now < MaxTicks * (AuctionDays + 1)
    /\ now' = now + AuctionDays + 1
    /\ UNCHANGED <<apiVars, agent, price, upload, vision, qdrant, ela>>

Init ==
    /\ users = SeedUsers
    /\ listings = << >>
    /\ bids = << >>
    /\ inflight = [p \in Procs |-> Idle]
    /\ resp = NoResp
    /\ calls = 0
    /\ AgentInit
    /\ price = PriceIdle
    /\ upload = UploadIdle
    /\ vision = VisionIdle
    /\ qdrant = QdrantIdle
    /\ ela = ElaIdle
    /\ now = 0

NextAgent ==
    \/ \E c \in {Null, Some("painting")}, d \in {Null, Some("oil on canvas")} :
          agent_run(c, d)
    \/ \E raw \in ElaRawScores : ela_analyze(raw)
    \/ exif_analyze
    \/ \E sc \in ReverseScores : reverse_analyze(sc)
    \/ \E reply \in LlmReplies : technical_decision(reply)
    \/ \E sc \in AiScores : ai_detect(sc)
    \/ \E sc \in AiScores : sdxl_detect(sc)
    \/ \E reply \in LlmReplies : ai_decision(reply)
    \/ \E r \in VisionReports : vision_analyze(r)
    \/ comparative_search
    \/ authenticity_reasoning
    \/ agent_raises

SpecAgent == Init /\ [][NextAgent]_vars

Next ==
    \/ \E tok \in Tokens, files \in UploadInputs : upload_images(tok, files)
    \/ \E tok \in Tokens, lid \in ListingIds : fetch_listing(tok, lid)
    \/ \E tok \in Tokens, lid \in ListingIds : get_listing(tok, lid)
    \/ \E tok \in Tokens : list_auctions(tok)
    \/ \E tok \in Tokens : my_listings(tok)
    \/ \E tok \in Tokens : me(tok)
    \/ \E p \in Procs, tok \in Tokens, lid \in ListingIds, img \in ImageLookups :
          run_authenticity_find(p, tok, lid, img)
    \/ \E p \in Procs, out \in AnalysisOutcomes : run_authenticity_update(p, out)
    \/ \E p \in Procs, tok \in Tokens, lid \in ListingIds : run_pricing_find(p, tok, lid)
    \/ \E p \in Procs, out \in PricingOutcomes : run_pricing_update(p, out)
    \/ \E p \in Procs, tok \in Tokens, lid \in ListingIds : run_post_gen_find(p, tok, lid)
    \/ \E p \in Procs : run_post_gen_update(p)
    \/ \E p \in Procs, tok \in Tokens, lid \in ListingIds : deploy_auction_find(p, tok, lid)
    \/ \E p \in Procs : deploy_auction_update(p)
    \/ \E p \in Procs, tok \in Tokens, lid \in ListingIds, body \in BidBodies :
          place_bid_find(p, tok, lid, body)
    \/ \E p \in Procs : place_bid_insert(p)
    \/ \E p \in Procs : place_bid_distinct(p)
    \/ \E p \in Procs : place_bid_update(p)

Spec == Init /\ [][Next]_vars

NextPrice ==
    \/ \E text \in PriceTexts : price_generate_content(text)
    \/ price_generate_raises
    \/ price_parse_fenced
    \/ price_parse_whole
    \/ price_parse_brace
    \/ price_return

SpecPrice == Init /\ [][NextPrice]_vars

NextUpload ==
    \/ \E files \in UploadFiles : upload_receive(files)
    \/ upload_check
    \/ \E outcome \in WriteOutcomes : upload_write(outcome)
    \/ \E ok \in BOOLEAN : upload_insert(ok)

SpecUpload == Init /\ [][NextUpload]_vars

NextVision ==
    \/ \E text \in VisionTexts : vision_completion(text)
    \/ vision_direct
    \/ vision_regex
    \/ \E repaired \in VisionTexts : vision_decide(repaired)
    \/ vision_return

SpecVision == Init /\ [][NextVision]_vars

NextQdrant ==
    \/ \E image \in Images : check_duplicate(image)
    \/ \E image \in Images, metadata \in Metadata : add_to_db(image, metadata)
    \/ \E image \in Images : example_check(image)
    \/ example_add

SpecQdrant == Init /\ [][NextQdrant]_vars

NextEla ==
    \/ \E im \in SpliceImages : ela_score(im)
    \/ \E level \in 1..255 : ela_strengthen(level)

SpecEla == Init /\ [][NextEla]_vars

NextClock ==
    \/ Next
    \/ clock_tick

SpecClock == Init /\ [][NextClock]_vars

NextRegister ==
    \/ \E p \in Procs, data \in UserCreates : register_find(p, data)
    \/ \E p \in Procs : register_insert(p)

SpecRegister == Init /\ [][NextRegister]_vars

\* the API with, among the uploads, images above the 10 MB that a listing
\* keeps inline
NextBigImage ==
    \/ Next
    \/ \E tok \in Tokens : upload_images(tok, "big_image")

SpecBigImage == Init /\ [][NextBigImage]_vars

----
\* Claims about the API (checked under Spec)

PhaseRank(status) == CHOOSE ph \in 1..5 : StatusOfPhase[ph] = status

\* no request is in flight
Quiescent == \A p \in Procs : inflight[p].pc = "idle"

SellerTokens == {t \in Tokens : \E u \in users : u.user_id = t.sub /\ u.role = "seller"}

BuyerTokens == {t \in Tokens : \E u \in users : u.user_id = t.sub /\ u.role = "buyer"}

\* tokens get_current_user must reject: absent, undecodable, without a
\* subject, or naming a user that does not exist
RejectedTokens ==
    {t \in Tokens : t.kind # "jwt" \/ ~ \E u \in users : u.user_id = t.sub}

PositiveBodies == {b \in BidBodies : b.kind = "number" /\ b.val > 0}

\* C1: a listing never reverts: no step lowers its pipeline_phase or moves
\* its status backward in UPLOADED, AUTHENTICATED, PRICED, POSTED,
\* AUCTION_ACTIVE.
C1_NeverReverts ==
    [][\A l \in DOMAIN listings :
          /\ listings'[l].pipeline_phase >= listings[l].pipeline_phase
          /\ PhaseRank(listings'[l].status) >= PhaseRank(listings[l].status)]_vars

\* C2: the pipeline advances one step at a time: a step that raises a
\* listing's phase raises it by exactly one, so phase 5 is reached only
\* through 1, 2, 3, 4.
C2_NoPhaseSkipped ==
    [][\A l \in DOMAIN listings :
          listings'[l].pipeline_phase > listings[l].pipeline_phase
          => listings'[l].pipeline_phase = listings[l].pipeline_phase + 1]_vars

\* C3: a bid of a buyer with a positive amount on an AUCTION_ACTIVE listing
\* that has a starting_price is rejected with 400 and leaves the bids alone
\* when the amount is below starting_price, and otherwise goes on to insert
\* exactly that bid: the request records one bid of that amount and is
\* then answered 200.
C3_BidPriceRule ==
    [][/\ \A p \in Procs, tok \in BuyerTokens, l \in DOMAIN listings,
             body \in PositiveBodies :
             ( /\ place_bid_find(p, tok, l, body)
               /\ listings[l].status = "AUCTION_ACTIVE"
               /\ listings[l].starting_price # Null )
             => IF body.val < listings[l].starting_price[1]
                THEN /\ resp'.status = 400
                     /\ inflight'[p].pc = "idle"
                     /\ bids' = bids
                ELSE /\ resp'.status = 0
                     /\ inflight'[p].pc = "insert"
                     /\ inflight'[p].amount = body.val
                     /\ inflight'[p].lid = l
       /\ \A p \in Procs :
             /\ (inflight[p].pc = "insert" /\ inflight'[p].pc # "insert")
                => /\ Len(bids') = Len(bids) + 1
                   /\ bids'[Len(bids')].amount = inflight[p].amount
                   /\ bids'[Len(bids')].listing_id = inflight[p].lid
             /\ (inflight[p].op = "bid" /\ inflight'[p].pc = "idle")
                => resp'.status = 200]_vars

\* C3 witness: with one bid recorded, a bid below starting_price has just
\* been rejected.
C3_Witness ==
    /\ resp.status = 400
    /\ resp.body.detail = "Le montant doit etre au moins min_price"
    /\ Len(bids) >= 1
    /\ \A i \in 1..Len(bids) :
          listings[bids[i].listing_id].starting_price # Null

\* C4: whenever no request is in flight, participants_count of every listing
\* is the number of distinct bidders with a recorded bid on it.
C4_CountIsDistinctBidders ==
    Quiescent =>
        \A l \in DOMAIN listings :
            listings[l].participants_count = Cardinality(distinct_bidders(bids, l))

\* C5: once every concurrent place_bid request has completed (the last
\* response is that of an accepted bid and nothing is in flight),
\* participants_count is the number of distinct bidders in the collection.
C5_CountAfterConcurrentBids ==
    ( /\ Quiescent
      /\ resp.status = 200
      /\ "participants" \in DOMAIN resp.body )
    => \A l \in DOMAIN listings :
          listings[l].status = "AUCTION_ACTIVE"
          => listings[l].participants_count = Cardinality(distinct_bidders(bids, l))

\* C6: bid storage loses nothing: every step keeps the recorded bids as they
\* are, and the insert of an accepted request appends exactly one record,
\* that request's.
C6_BidsAppendOnly ==
    [][/\ Len(bids') >= Len(bids)
       /\ SubSeq(bids', 1, Len(bids)) = bids
       /\ \A p \in Procs :
             (inflight[p].pc = "insert" /\ inflight'[p].pc # "insert")
             => bids' = Append(bids, [listing_id |-> inflight[p].lid,
                                      user_id |-> inflight[p].user,
                                      amount |-> inflight[p].amount])]_vars

\* C6 witness: two bids of the same bidder on the same listing are both
\* recorded.
C6_Witness ==
    /\ Len(bids) = 2
    /\ bids[1].user_id = bids[2].user_id
    /\ bids[1].listing_id = bids[2].listing_id

BuyerHidden == {"price_estimation", "ai_analysis", "seller_id", "blockchain"}

\* C7: for a buyer, no response of GET /listings/, GET /listings/{id} or
\* GET /listing/{id} holds price_estimation, ai_analysis, seller_id or
\* blockchain, whatever the state of the listing.
C7_BuyerViewRedacted ==
    \A tok \in BuyerTokens :
        /\ \A item \in list_auctions_response(tok).body.items :
              DOMAIN item \cap BuyerHidden = {}
        /\ \A l \in DOMAIN listings :
              /\ get_listing_response(tok, l).status = 200
              /\ DOMAIN get_listing_response(tok, l).body \cap BuyerHidden = {}
              /\ fetch_listing_response(tok, l).status = 200
              /\ DOMAIN fetch_listing_response(tok, l).body \cap BuyerHidden = {}

\* C7 witness: a redacted detail view has just been returned for a listing
\* that has an analysis and a price estimation.
C7_Witness ==
    /\ resp.status = 200
    /\ "listing_id" \in DOMAIN resp.body
    /\ "images" \in DOMAIN resp.body
    /\ "seller_id" \notin DOMAIN resp.body
    /\ listings[resp.body.listing_id].price_estimation # Null
    /\ listings[resp.body.listing_id].ai_analysis # Null

\* amounts a stored bid can carry
BidAmounts == {b.val : b \in PositiveBodies}

\* the bids collections that differ from coll only in the amounts of the
\* bids of users other than user
AmountVariants(coll, user) ==
    { alt \in [1..Len(coll) -> [listing_id : ListingIds, user_id : UserIds,
                                amount : BidAmounts]] :
        \A i \in 1..Len(coll) :
            /\ alt[i].listing_id = coll[i].listing_id
            /\ alt[i].user_id = coll[i].user_id
            /\ coll[i].user_id = user => alt[i].amount = coll[i].amount }

\* C8: bid amounts are sealed: what place_bid answers to a user is the same
\* in any two states that differ only in the amounts of other users' bids
\* (the listing reads are computed from the listings collection alone).
C8_AmountsSealed ==
    \A tok \in BuyerTokens, l \in ListingIds, body \in BidBodies :
        \A alt \in AmountVariants(bids, tok.sub) :
            place_bid_response(tok, l, body, alt) = place_bid_response(tok, l, body, bids)

\* C8 witness: a bid has just been accepted while the collection holds the
\* bids of two different users.
C8_Witness ==
    /\ resp.status = 200
    /\ "participants" \in DOMAIN resp.body
    /\ Len(bids) = 2
    /\ bids[1].user_id # bids[2].user_id
    /\ bids[1].amount # bids[2].amount

SellerOnly(tok) ==
    \/ \E files \in UploadInputs : upload_images(tok, files)
    \/ my_listings(tok)
    \/ \E p \in Procs, l \in ListingIds :
          \/ \E img \in ImageLookups : run_authenticity_find(p, tok, l, img)
          \/ run_pricing_find(p, tok, l)
          \/ run_post_gen_find(p, tok, l)
          \/ deploy_auction_find(p, tok, l)

BuyerOnly(tok) ==
    \E p \in Procs, l \in ListingIds, body \in BidBodies : place_bid_find(p, tok, l, body)

AnyRole(tok) ==
    \/ list_auctions(tok)
    \/ me(tok)
    \/ \E l \in ListingIds : fetch_listing(tok, l) \/ get_listing(tok, l)

Untouched == UNCHANGED <<users, listings, bids, inflight>>

\* C9: a request to a protected endpoint without a token, with an invalid or
\* expired token, or with the token of a user that does not exist is
\* answered 401; a request of a user of the wrong role (buyer on a
\* seller-only endpoint, seller on POST bid) is answered 403; neither
\* changes a stored listing, bid or user nor starts any work.
C9_AuthRejections ==
    /\ \A tok \in RejectedTokens :
          ~ ENABLED ( /\ SellerOnly(tok) \/ BuyerOnly(tok) \/ AnyRole(tok)
                      /\ ~ (resp'.status = 401 /\ Untouched) )
    /\ \A tok \in BuyerTokens :
          ~ ENABLED (SellerOnly(tok) /\ ~ (resp'.status = 403 /\ Untouched))
    /\ \A tok \in SellerTokens :
          ~ ENABLED (BuyerOnly(tok) /\ ~ (resp'.status = 403 /\ Untouched))

\* C9 witness: with a listing stored, a request has just been refused for
\* its role.
C9_Witness ==
    /\ resp.status = 403
    /\ DOMAIN listings # {}
    /\ Len(bids) >= 1

----
\* Claims about GeminiAutonomousAgent.run (checked under SpecAgent)

StageOrder ==
    << "ela", "exif", "reverse", "technical_llm", "ai_detection",
       "sdxl_detection", "ai_llm", "vision", "comparative", "reasoning" >>

StageRank(stage) == CHOOSE i \in 1..Len(StageOrder) : StageOrder[i] = stage

\* the stages ran in the fixed order, none of them twice
InStageOrder(trace) ==
    \A i, j \in 1..Len(trace) : i < j => StageRank(trace[i]) < StageRank(trace[j])

Last(seq) == seq[Len(seq)]

\* C10 (as stated): stages run in the fixed order, none repeated, and a
\* completed run ends in one of duplicate, manipulated, ai_generated,
\* validated.
C10_AsStated ==
    /\ InStageOrder(agent.trace)
    /\ agent.pc = "returned"
       => agent.verdict \in {"duplicate", "manipulated", "ai_generated", "validated"}

\* C10 (amended): stages run in the fixed order, none repeated, and a
\* completed run ends in exactly one of the two early exits
\* duplicate_or_manipulated (right after the first Gemini decision) and
\* ai_generated (right after the second), or in validated (after the final
\* reasoning call).
C10_FixedOrderStateMachine ==
    /\ InStageOrder(agent.trace)
    /\ agent.pc = "returned" =>
          \/ agent.verdict = "duplicate_or_manipulated"
             /\ Last(agent.trace) = "technical_llm"
          \/ agent.verdict = "ai_generated" /\ Last(agent.trace) = "ai_llm"
          \/ agent.verdict = "validated" /\ Last(agent.trace) = "reasoning"

\* C10 witness: a run that asked Gemini twice and went through every stage
\* has returned validated.
C10_Witness ==
    /\ agent.pc = "returned"
    /\ agent.verdict = "validated"
    /\ agent.trace = StageOrder

\* the trace of the run holds stage
Ran(stage) == \E i \in 1..Len(agent.trace) : agent.trace[i] = stage

\* C11: the first Gemini decision is asked for only when the technical
\* signals are ambiguous: never when the ELA verdict is clean with score
\* < 0.4, nor when it is clean with score < 0.5 and the reverse-search score
\* is < 0.8; and a run ends in duplicate_or_manipulated only if that decision
\* was asked for and its reply holds "stop" and not "proceed".
C11_FirstDecisionRule ==
    /\ Ran("technical_llm") =>
          /\ ~ (agent.ela_verdict = "clean" /\ agent.ela_score < 4000)
          /\ ~ (agent.ela_verdict = "clean" /\ agent.ela_score < 5000
                /\ agent.reverse_score < 8000)
    /\ agent.verdict = "duplicate_or_manipulated" =>
          /\ Ran("technical_llm")
          /\ agent.technical_reply.stop
          /\ ~ agent.technical_reply.proceed

\* C11 witness: a run with a clean ELA verdict and a score of 0.4 after
\* rounding, found widely online, asked Gemini and stopped on its reply.
C11_Witness ==
    /\ agent.pc = "returned"
    /\ agent.verdict = "duplicate_or_manipulated"
    /\ agent.ela_verdict = "clean"
    /\ agent.ela_score = 4000
    /\ agent.reverse_score >= 8000

\* C12: a run that passes the technical-signal and AI-detection stages
\* goes through vision analysis, comparative search and the final reasoning
\* call whatever its inputs, and returns validated with an evidence bundle
\* that holds the comparative search result.
C12_StagesUnconditional ==
    (agent.pc = "returned" /\ agent.verdict = "validated")
    => /\ Ran("vision")
       /\ Ran("comparative")
       /\ Ran("reasoning")
       /\ agent.comparative

\* some extraction attempt of the reply yields a JSON object
YieldsObject(text) ==
    \/ text.fenced.found = "value" /\ text.fenced.value.kind = "object"
    \/ text.whole.found = "value" /\ text.whole.value.kind = "object"
    \/ text.brace.found = "value" /\ text.brace.value.kind = "object"

\* C13: whenever none of the three extraction attempts yields a JSON
\* object, RecommandationPrixAgent.run returns low 50, median 100, high 200,
\* starting_price 75.
C13_MalformedGivesFallback ==
    (price.pc \in {"returned", "raised"} /\ price.error # "Exception"
     /\ ~ YieldsObject(price.text))
    => (price.pc = "returned" /\ price.result = PriceFallback)

\* the agent of an estimate request fails: it raises, a ValueError or not
PricingFailures == {out \in PricingOutcomes : out.kind # "result"}

\* the listing of the request in slot p is PRICED with the default range
PricedByDefault(p) ==
    LET doc == listings'[inflight[p].lid]
    IN  /\ resp'.status = 200
        /\ doc.pipeline_phase = 3
        /\ doc.status = "PRICED"
        /\ doc.starting_price = Some(75)
        /\ doc.price_estimation # Null
        /\ doc.price_estimation[1].low = 50
        /\ doc.price_estimation[1].median = 100
        /\ doc.price_estimation[1].high = 200

\* C14 (as stated): whatever way the pricing agent fails, the estimate
\* request succeeds and the listing is PRICED (phase 3) with low 50, median
\* 100, high 200 and starting_price 75.
C14_AsStated ==
    [][\A p \in Procs, out \in PricingFailures :
          run_pricing_update(p, out) => PricedByDefault(p)]_vars

\* C14 (amended): when the pricing agent raises an exception that is not a
\* ValueError, the estimate request succeeds and the listing is PRICED
\* (phase 3) with low 50, median 100, high 200 and starting_price 75; when
\* it raises a ValueError (GEMINI_API_KEY missing), the request is answered
\* 400 and the listing is left as it was.
C14_FailureGivesDefault ==
    [][\A p \in Procs, out \in PricingFailures :
          run_pricing_update(p, out)
          => IF out.kind = "ValueError"
             THEN resp'.status = 400 /\ listings' = listings
             ELSE PricedByDefault(p)]_vars

\* C14 witness: a listing is PRICED with the default range and the
\* reasoning of a caught exception.
C14_Witness ==
    /\ resp.status = 200
    /\ "phase" \in DOMAIN resp.body
    /\ resp.body.phase = 3
    /\ resp.body.price_estimation.reasoning = "str(e)"
    /\ \E l \in DOMAIN listings :
          /\ listings[l].status = "PRICED"
          /\ listings[l].starting_price = Some(75)
          /\ listings[l].price_estimation # Null
          /\ listings[l].price_estimation[1].reasoning = "str(e)"

\* C15: when an upload request fails after it wrote files (a later file is
\* no image, a later file cannot be written, the insert fails), none of the
\* files the request had written is left on the disk and no listing
\* document of the request exists.  (The file whose own write failed half
\* way is not among the files written.)
C15_FailedUploadCleansUp ==
    (upload.pc = "done" /\ upload.status # 200)
    => /\ upload.written \cap upload.disk = {}
       /\ ~ upload.inserted

\* C15 witness: the insert failed after two files were written, and both
\* are gone.
C15_Witness ==
    /\ upload.pc = "done"
    /\ upload.status = 500
    /\ upload.i = 3
    /\ upload.written = {1, 2}
    /\ upload.disk = {0}

\* the orders in which run can have gone through its steps
VisionOrders ==
    LET first == { <<"direct">>, <<"direct", "regex">> }
        again == { f \o <<"repair">> \o g : f \in first, g \in first }
        all == first \cup again
    IN  UNION { { SubSeq(t, 1, n) : n \in 0..Len(t) } : t \in all }

\* json.loads accepted the whole text or the brace match
Parses(text) == text.whole.found = "value" \/ text.brace.found = "value"

\* what _extract_json returns for text
Extracted(text) ==
    IF text.whole.found = "value" THEN text.whole
    ELSE IF text.brace.found = "value" THEN text.brace
    ELSE NoMatch

\* the repair call was made
Ran16Repair == \E k \in 1..Len(vision.trace) : vision.trace[k] = "repair"

Hamming(a, b) == Cardinality((a \ b) \cup (b \ a))

\* the hash of the image last checked
QueryHash == compute_phash(qdrant.image.bytes)

\* C17: check_duplicate reports a duplicate exactly when some stored hash
\* is within the threshold (10) in Hamming distance of the query image's
\* hash, and then returns the payload of a nearest stored hash; with an
\* empty collection it reports no duplicate.
C17_DuplicateIffWithinThreshold ==
    qdrant.last = "check" =>
        /\ qdrant.is_duplicate <=>
              \E pt \in qdrant.points :
                  Hamming(pt.payload.phash, QueryHash) <= 10
        /\ qdrant.is_duplicate =>
              \E pt \in qdrant.points :
                  /\ pt.payload = qdrant.payload
                  /\ \A other \in qdrant.points :
                        Hamming(pt.payload.phash, QueryHash)
                            <= Hamming(other.payload.phash, QueryHash)
        /\ qdrant.points = {} => ~ qdrant.is_duplicate

\* C17 witness: a check that found a stored hash at distance exactly 10,
\* with a second, farther hash in the collection.
C17_Witness ==
    /\ qdrant.last = "check"
    /\ qdrant.is_duplicate
    /\ Hamming(qdrant.payload.phash, QueryHash) = 10
    /\ Cardinality(qdrant.points) = 2

\* C18: a duplicate check that finds no duplicate leaves the image's hash
\* and metadata in the collection, and one that finds a duplicate inserts
\* nothing (read on the example's check-then-add sequence).
C18_NonDuplicateInserted ==
    [][ (qdrant.pc = "example" /\ qdrant'.pc = "idle") =>
            IF qdrant.is_duplicate
            THEN qdrant'.points = qdrant.points
            ELSE \E pt \in qdrant'.points :
                    /\ pt.payload.phash = compute_phash(qdrant.image.bytes)
                    /\ pt.payload.filename = basename(qdrant.image.path)
                    /\ pt.payload.meta = "alice" ]_vars

\* C19: once an image's bytes have been given to add_to_db, a duplicate
\* check of the same bytes reports a duplicate at distance 0, whatever
\* the collection held before and whatever the file names.
C19_SameBytesDuplicate ==
    (qdrant.last = "check" /\ qdrant.image.bytes \in qdrant.added) =>
        qdrant.is_duplicate /\ qdrant.hamming_approx = 0

\* C20: making the error level of the injected splice stronger never
\* lowers the suspicion score.
C20_ScoreMonotonic == ela.score >= ela.weaker

\* C21: every bid is inserted while its listing is AUCTION_ACTIVE and the
\* listing's starting_price is at most the bid amount, also when seller
\* pipeline calls run between place_bid's listing check and its insert.
C21_InsertedWhileActive ==
    [][ Len(bids') > Len(bids) =>
            LET bid == bids'[Len(bids')]
            IN  /\ listings[bid.listing_id].status = "AUCTION_ACTIVE"
                /\ MinPrice(listings[bid.listing_id]) <= bid.amount ]_vars

\* C22: place_bid answers 404 to a bid on an auction that does not exist or
\* is finished: once the listing's end_time has passed, no bid on it goes
\* on to be recorded.
C22_NoBidAfterEndTime ==
    [][ \A p \in Procs :
          (inflight[p].pc = "idle" /\ inflight'[p].op = "bid"
             /\ inflight'[p].pc = "insert") =>
              LET doc == listings[inflight'[p].lid]
              IN  doc.end_time # Null /\ now <= doc.end_time[1] ]_vars

\* C23: whenever the authenticity agent returns a result, whatever its
\* verdict, the analyze endpoint stores it as ai_analysis, sets the listing
\* to phase 2 and AUTHENTICATED, and answers 200.
C23_EveryVerdictAuthenticates ==
    \A p \in Procs, v \in Verdicts :
        ~ ENABLED ( /\ run_authenticity_update(p, [kind |-> "result", verdict |-> v])
                    /\ ~ ( /\ resp'.status = 200
                           /\ listings'[inflight[p].lid].pipeline_phase = 2
                           /\ listings'[inflight[p].lid].status = "AUTHENTICATED"
                           /\ listings'[inflight[p].lid].ai_analysis
                                 = Some([verdict |-> v]) ) )

\* C23 witness: an analysis that ended with the verdict ai_generated has
\* been answered, and the listing is AUTHENTICATED with that result stored.
C23_Witness ==
    /\ resp.status = 200
    /\ "ai_analysis" \in DOMAIN resp.body
    /\ "phase" \in DOMAIN resp.body
    /\ resp.body.phase = 2
    /\ resp.body.ai_analysis.verdict = "ai_generated"
    /\ \E l \in DOMAIN listings :
          /\ listings[l].status = "AUTHENTICATED"
          /\ listings[l].pipeline_phase = 2
          /\ listings[l].ai_analysis = Some([verdict |-> "ai_generated"])

\* the image of listing lid cannot be handed to the agent: the listing has
\* no image, its bytes cannot be written to a temporary file, or it has
\* neither bytes nor a local file
NoImageFor(lid, img) ==
    \/ Len(listings[lid].images) = 0
    \/ "data" \in DOMAIN listings[lid].images[1] /\ img = "tmp_write_fails"
    \/ "data" \notin DOMAIN listings[lid].images[1] /\ img = "not_found"

\* C24: when the authenticity analysis cannot be completed (no image, image
\* not found, missing API key, any agent error) the analyze endpoint
\* answers 400 or 500 and leaves the listing (pipeline_phase, status and
\* ai_analysis included) unchanged.
C24_FailedAnalysisChangesNothing ==
    /\ \A p \in Procs, tok \in SellerTokens, lid \in DOMAIN listings,
          img \in ImageLookups :
          (listings[lid].seller_id = tok.sub /\ NoImageFor(lid, img)) =>
              ~ ENABLED ( /\ run_authenticity_find(p, tok, lid, img)
                          /\ ~ ( /\ resp'.status \in {400, 500}
                                 /\ inflight'[p].pc = "idle"
                                 /\ listings' = listings ) )
    /\ \A p \in Procs, out \in AnalysisOutcomes :
          out.kind # "result" =>
              ~ ENABLED ( /\ run_authenticity_update(p, out)
                          /\ ~ ( /\ resp'.status \in {400, 500}
                                 /\ inflight'[p].pc = "idle"
                                 /\ listings' = listings ) )

\* C24 witness: the analysis of a listing whose image is neither inline
\* nor on disk has just been refused, and the listing is still UPLOADED
\* with no ai_analysis.
C24_Witness ==
    /\ resp = Error(400, "Image introuvable")
    /\ \E l \in DOMAIN listings :
          /\ "data" \notin DOMAIN listings[l].images[1]
          /\ listings[l].status = "UPLOADED"
          /\ listings[l].ai_analysis = Null

\* C25: a run returns the verdict ai_generated only if both AI detectors
\* (umm-maybe and sdxl) gave a suspicion score of at least 0.7.
C25_AiGeneratedNeedsBoth ==
    (agent.pc = "returned" /\ agent.verdict = "ai_generated") =>
        agent.ai_score >= 7000 /\ agent.sdxl_score >= 7000

\* C26: no two user records share an email: register answers 400 to an
\* email already in use and creates no user, under every interleaving of
\* concurrent register requests.
C26_EmailsUnique ==
    \A u, v \in users : u.email = v.email => u = v

\* the four pipeline handlers
PipelineOps == {"analyze", "estimate", "generate", "deploy"}

\* a pipeline request of token tok on listing lid is received by slot p
PipelineCall(p, tok, lid) ==
    \/ \E img \in ImageLookups : run_authenticity_find(p, tok, lid, img)
    \/ run_pricing_find(p, tok, lid)
    \/ run_post_gen_find(p, tok, lid)
    \/ deploy_auction_find(p, tok, lid)

\* C27: analyze, estimate, generate and deploy change a listing only for
\* the seller who owns it: every pipeline request that goes on to its
\* update is the owner's, and a request of any other seller is answered 404
\* and leaves every listing unchanged.
C27_OnlyOwnerChanges ==
    /\ \A p \in Procs :
          (inflight[p].op \in PipelineOps /\ inflight[p].pc = "update") =>
              /\ inflight[p].lid \in DOMAIN listings
              /\ listings[inflight[p].lid].seller_id = inflight[p].user
    /\ \A p \in Procs, tok \in SellerTokens, lid \in DOMAIN listings :
          listings[lid].seller_id # tok.sub =>
              ~ ENABLED ( /\ PipelineCall(p, tok, lid)
                          /\ ~ ( /\ resp'.status = 404
                                 /\ inflight'[p].pc = "idle"
                                 /\ listings' = listings ) )

\* C27 witness: a pipeline request on a stored listing has just been
\* answered 404 (the only listing id is stored, so the caller was a seller
\* who does not own it), and the listing is as uploaded.
C27_Witness ==
    /\ resp = Error(404, "Listing introuvable")
    /\ \E l \in DOMAIN listings :
          /\ listings[l].seller_id = "s1"
          /\ listings[l].status = "UPLOADED"
          /\ listings[l].pipeline_phase = 1

\* C28: a buyer never sees a listing's pipeline_phase: the buyer list and
\* both detail endpoints (GET /listings/{id}, GET /listing/{id}) omit it.
C28_PhaseHiddenFromBuyer ==
    \A tok \in BuyerTokens :
        /\ \A item \in list_auctions_response(tok).body.items :
              "pipeline_phase" \notin DOMAIN item
        /\ \A l \in DOMAIN listings :
              /\ "pipeline_phase" \notin DOMAIN get_listing_response(tok, l).body
              /\ "pipeline_phase" \notin DOMAIN fetch_listing_response(tok, l).body

\* C29: in every reachable state each listing's status is the one of its
\* pipeline_phase (1 UPLOADED, 2 AUTHENTICATED, 3 PRICED, 4 POSTED,
\* 5 AUCTION_ACTIVE), also while pipeline calls and bids on the listing
\* are in flight together.
C29_StatusMatchesPhase ==
    \A l \in DOMAIN listings :
        /\ listings[l].pipeline_phase \in 1..5
        /\ listings[l].status = StatusOfPhase[listings[l].pipeline_phase]

\* C29 witness: a listing that was in auction and has a recorded bid has
\* been analysed again, while a bid on it is still in flight.
C29_Witness ==
    /\ Len(bids) >= 1
    /\ \E l \in DOMAIN listings :
          listings[l].pipeline_phase = 2 /\ listings[l].status = "AUTHENTICATED"
    /\ \E p \in Procs : inflight[p].op = "bid" /\ inflight[p].pc # "idle"

====
